---------------------------- MODULE Spec2Model ----------------------------
(* Model of the analysis helpers of heptrkx-gnn-tracking:                  *)
(*   src/notebooks/nb_utils.py and src/utils/data_utils.py.                *)
(*                                                                         *)
(* Conventions.                                                            *)
(*  - Python arrays and lists are TLA+ sequences: Python position j is     *)
(*    sequence position j+1.  Hit (node) and dataset indices keep their    *)
(*    Python values (0-based) wherever they are stored as data.            *)
(*  - Scores (preds, labels, cut) are kept in units of 1/2: 0, 1, 2 stand  *)
(*    for 0.0, 0.5, 1.0.  The code only compares them with < and >.        *)
EXTENDS Integers, Sequences, FiniteSets, TLC

VARIABLES
    pc,         \* which helper runs and where it is
    n_hits,     \* len(hits)
    edges,      \* edges.T: a sequence of <<edges[0,j], edges[1,j]>>
    preds,      \* per-edge model output
    labels,     \* per-edge truth label
    cut,        \* decision threshold
    tf_mul,     \* tf_multiplicity's result
    mul,        \* add_multiplicity's first result
    w_mul,      \* add_multiplicity's second result, in units of 1/4
    plotted,    \* the ax0.plot calls made so far, in order
    dataset,    \* the full dataset: the sample stored at each position
    n_tasks,    \* get_data_loader's n_tasks
    task,       \* get_data_loader's task
    n_test,     \* the test loaders' n_test
    indices,    \* sub_indices / test_indices: the Subset's index array
    loader,     \* the DataLoader built, or <<>> before it is built
    it,         \* number of batches the loader's iterator has produced
    fetched,    \* the dataset positions read by the iteration, in order
    yielded,    \* the batches the loader has yielded, in order
    model,      \* the network: the output it computes for each input
    data_loader,\* the batches apply_model's loader yields, in order
    consumed,   \* number of batches apply_model's for loop has taken
    out_preds,  \* the list `preds` of apply_model / compute_metrics
    out_targets,\* the list `targets` of apply_model / compute_metrics
    threshold,  \* compute_metrics' threshold
    metrics,    \* compute_metrics' result
    X,          \* draw_sample: the feature row of each node
    Ri,         \* draw_sample: incidence matrix Ri[node][edge]
    Ro,         \* draw_sample: incidence matrix Ro[node][edge]
    y,          \* draw_sample: per-edge score
    config,     \* the caller's configuration dictionary
    load_calls  \* the load_model calls made so far, in order

gvars == <<n_hits, edges, preds, labels, cut, tf_mul, mul, w_mul, plotted>>
lvars == <<dataset, n_tasks, task, n_test, indices, loader, it, fetched, yielded>>
mvars == <<model, data_loader, consumed, out_preds, out_targets, threshold, metrics>>
dvars == <<X, Ri, Ro, y>>
cvars == <<config, load_calls>>
vars == <<pc, gvars, lvars, mvars, dvars, cvars>>

(* What the helpers of one group leave alone.                              *)
not_g == <<lvars, mvars, dvars, cvars>>
not_l == <<gvars, mvars, dvars, cvars>>
not_m == <<gvars, lvars, dvars, cvars>>
not_c == <<gvars, lvars, mvars, dvars>>

-----------------------------------------------------------------------------
(* Bounds of the model.                                                    *)
MaxHits == 2
MaxEdges == 2
MaxLen == 4         \* len(full_dataset)
MaxTasks == 3
MaxTest == 5
MaxBatches == 3
MaxArrays == 2      \* arrays in compute_metrics' lists
MaxEntries == 3     \* entries over all arrays of one list
MaxNodes == 2       \* rows of X, Ri, Ro in draw_sample
MaxSegs == 2        \* columns of Ri, Ro in draw_sample
MaxCalls == 3       \* load_model calls on one config

(* The default cut=0.5 of the drawing and multiplicity helpers, in halves. *)
Cut == 1
(* The default threshold=0.5 of compute_metrics, in halves.                *)
Threshold == 1
Scores == 0 .. 2

HitIds(n) == 0 .. (n - 1)
Min(a, b) == IF a < b THEN a ELSE b

RECURSIVE SeqSum(_)
SeqSum(s) == IF s = <<>> THEN 0 ELSE Head(s) + SeqSum(Tail(s))

RECURSIVE FnSum(_, _)
FnSum(f, D) ==
    IF D = {} THEN 0
    ELSE LET x == CHOOSE z \in D : TRUE IN f[x] + FnSum(f, D \ {x})

(* Sequences over S of length exactly n.                                   *)
SeqN(S, n) == [1 .. n -> S]

-----------------------------------------------------------------------------
(* Graph inputs shared by the multiplicity and drawing helpers: the caller *)
(* passes one prediction and one label per edge, and every edge endpoint   *)
(* is a valid hit index.                                                   *)
GraphInit ==
    /\ n_hits \in 0 .. MaxHits
    /\ \E ne \in 0 .. MaxEdges :
         /\ edges \in SeqN(HitIds(n_hits) \X HitIds(n_hits), ne)
         /\ preds \in SeqN(Scores, ne)
         /\ labels \in SeqN(Scores, ne)
    /\ cut = Cut

(* The same for the helpers that take no labels.                           *)
GraphInitNoLabels ==
    /\ n_hits \in 0 .. MaxHits
    /\ \E ne \in 0 .. MaxEdges :
         /\ edges \in SeqN(HitIds(n_hits) \X HitIds(n_hits), ne)
         /\ preds \in SeqN(Scores, ne)
    /\ labels = <<>>
    /\ cut \in Scores

GraphIdle ==
    /\ n_hits = 0 /\ edges = <<>> /\ preds = <<>> /\ labels = <<>> /\ cut = Cut

ResultsIdle ==
    /\ tf_mul = <<>> /\ mul = <<>> /\ w_mul = <<>> /\ plotted = <<>>

LoaderIdle ==
    /\ dataset = <<>> /\ n_tasks = 1 /\ task = 0 /\ n_test = 0
    /\ indices = <<>> /\ loader = <<>> /\ it = 0
    /\ fetched = <<>> /\ yielded = <<>>

ApplyIdle ==
    /\ model = <<>> /\ data_loader = <<>> /\ consumed = 0 /\ out_preds = <<>>
    /\ out_targets = <<>> /\ threshold = Threshold /\ metrics = <<>>

(* The state of the groups a specification does not exercise.              *)
DrawIdle ==
    /\ X = <<>> /\ Ri = <<>> /\ Ro = <<>> /\ y = <<>>

ConfigIdle ==
    /\ config = <<>> /\ load_calls = <<>>

IdleButG == LoaderIdle /\ ApplyIdle /\ DrawIdle /\ ConfigIdle
IdleButL == GraphIdle /\ ResultsIdle /\ ApplyIdle /\ DrawIdle /\ ConfigIdle
IdleButM == GraphIdle /\ ResultsIdle /\ LoaderIdle /\ DrawIdle /\ ConfigIdle
IdleButC == GraphIdle /\ ResultsIdle /\ LoaderIdle /\ ApplyIdle /\ DrawIdle

-----------------------------------------------------------------------------
(* tf_multiplicity                                                         *)

int(b) == IF b THEN 1 ELSE 0

(* np.zeros((len(hits), 4))                                                *)
TfZeros(n) == [h \in HitIds(n) |-> [c \in 0 .. 3 |-> 0]]

(* tf_mul[h][c] += v                                                       *)
TfAdd(tf, h, c, v) == [tf EXCEPT ![h][c] = @ + v]

(* The loop body with the true-negative test reduced to pred < cut.        *)
TfBodyOverlapping(tf, edge, pred, label, c) ==
    LET t1 == TfAdd(tf, edge[1], 0, int((pred > c) /\ (label > c)))
        t2 == TfAdd(t1, edge[2], 0, int((pred > c) /\ (label > c)))
        t3 == TfAdd(t2, edge[1], 1, int((pred > c) /\ (label < c)))
        t4 == TfAdd(t3, edge[2], 1, int((pred > c) /\ (label < c)))
        t5 == TfAdd(t4, edge[1], 2, int(pred < c))
        t6 == TfAdd(t5, edge[2], 2, int(pred < c))
        t7 == TfAdd(t6, edge[1], 3, int((pred < c) /\ (label > c)))
        t8 == TfAdd(t7, edge[1], 3, int((pred < c) /\ (label > c)))
    IN t8

(* The body of the for loop: eight += statements, in source order.         *)
TfBody(tf, edge, pred, label, c) ==
    LET t1 == TfAdd(tf, edge[1], 0, int((pred > c) /\ (label > c)))
        t2 == TfAdd(t1, edge[2], 0, int((pred > c) /\ (label > c)))
        t3 == TfAdd(t2, edge[1], 1, int((pred > c) /\ (label < c)))
        t4 == TfAdd(t3, edge[2], 1, int((pred > c) /\ (label < c)))
        t5 == TfAdd(t4, edge[1], 2, int((pred < c) /\ (label < c)))
        t6 == TfAdd(t5, edge[2], 2, int((pred < c) /\ (label < c)))
        t7 == TfAdd(t6, edge[1], 3, int((pred < c) /\ (label > c)))
        t8 == TfAdd(t7, edge[1], 3, int((pred < c) /\ (label > c)))
    IN t8

(* zip(edges.T, preds, labels) stops with the shortest argument.           *)
Zip3Len(es, ps, ls) == Min(Len(es), Min(Len(ps), Len(ls)))

RECURSIVE TfLoop(_, _, _, _, _, _)
TfLoop(k, tf, es, ps, ls, c) ==
    IF k > Zip3Len(es, ps, ls) THEN tf
    ELSE TfLoop(k + 1, TfBody(tf, es[k], ps[k], ls[k], c), es, ps, ls, c)

tf_multiplicity(n, es, ps, ls, c) == TfLoop(1, TfZeros(n), es, ps, ls, c)

CallTfMultiplicity ==
    /\ pc = "start"
    /\ tf_mul' = tf_multiplicity(n_hits, edges, preds, labels, cut)
    /\ pc' = "tf_multiplicity_done"
    /\ UNCHANGED <<n_hits, edges, preds, labels, cut, mul, w_mul, plotted, not_g>>

InitTf == pc = "start" /\ GraphInit /\ ResultsIdle /\ IdleButG
NextTf == CallTfMultiplicity
SpecTf == InitTf /\ [][NextTf]_vars

(* The edge endpoints <<j, side>> that are hit h.                          *)
EndpointsAt(h) ==
    {e \in (1 .. Len(edges)) \X {1, 2} : edges[e[1]][e[2]] = h}

IsTP(k) == preds[k] > cut /\ labels[k] > cut
IsFP(k) == preds[k] > cut /\ labels[k] < cut
IsTN(k) == preds[k] < cut /\ labels[k] < cut
IsFN(k) == preds[k] < cut /\ labels[k] > cut

(* C1: tf_multiplicity returns, for every hit h, the row (tp, fp, tn, fn)  *)
(* whose entries count the edge endpoints equal to h whose edge is a true  *)
(* positive, false positive, true negative, false negative.                *)
C1_TfCountsEndpoints ==
    pc = "tf_multiplicity_done" =>
        \A h \in HitIds(n_hits) :
            /\ tf_mul[h][0] = Cardinality({e \in EndpointsAt(h) : IsTP(e[1])})
            /\ tf_mul[h][1] = Cardinality({e \in EndpointsAt(h) : IsFP(e[1])})
            /\ tf_mul[h][2] = Cardinality({e \in EndpointsAt(h) : IsTN(e[1])})
            /\ tf_mul[h][3] = Cardinality({e \in EndpointsAt(h) : IsFN(e[1])})

(* The sum of column c of tf_mul over all hits.                            *)
RECURSIVE ColumnSumTo(_, _)
ColumnSumTo(c, h) == IF h < 0 THEN 0 ELSE tf_mul[h][c] + ColumnSumTo(c, h - 1)
ColumnSum(c) == ColumnSumTo(c, n_hits - 1)

(* C11: every edge adds to at most one of the four categories, an edge     *)
(* with preds[j] = cut or labels[j] = cut adds to none, and the sum of all *)
(* entries of the result is 2 times the number of edges with preds[j] !=   *)
(* cut and labels[j] != cut.  Each column's sum is twice the number of     *)
(* edges of its category, so an edge adds 2 to its own category only.      *)
C11_TfConservesEndpoints ==
    pc = "tf_multiplicity_done" =>
        LET E == 1 .. Len(edges)
            tp == ColumnSum(0)
            fp == ColumnSum(1)
            tn == ColumnSum(2)
            fn == ColumnSum(3)
        IN /\ tp = 2 * Cardinality({k \in E : IsTP(k)})
           /\ fp = 2 * Cardinality({k \in E : IsFP(k)})
           /\ tn = 2 * Cardinality({k \in E : IsTN(k)})
           /\ fn = 2 * Cardinality({k \in E : IsFN(k)})
           /\ \A k \in E :
                 int(IsTP(k)) + int(IsFP(k)) + int(IsTN(k)) + int(IsFN(k))
                   = IF preds[k] # cut /\ labels[k] # cut THEN 1 ELSE 0
           /\ tp + fp + tn + fn
                 = 2 * Cardinality({k \in E : preds[k] # cut /\ labels[k] # cut})

(* A false-negative edge between two different hits, and an edge whose     *)
(* label is at the cut: the entries sum to 2.                              *)
C11_Witness ==
    /\ pc = "tf_multiplicity_done"
    /\ Len(edges) = 2
    /\ edges[1][1] # edges[1][2] /\ IsFN(1)
    /\ labels[2] = cut /\ preds[2] # cut
    /\ ColumnSum(0) + ColumnSum(1) + ColumnSum(2) + ColumnSum(3) = 2

-----------------------------------------------------------------------------
(* add_multiplicity                                                        *)

(* mul[h] += v ; also w_mul[h] += v                                        *)
VecAdd(m, h, v) == [m EXCEPT ![h] = @ + v]

(* np.zeros(len(hits))                                                     *)
Zeros(n) == [h \in HitIds(n) |-> 0]

(* The if of the loop body.                                                *)
AddTakenWeak(pred, c) == pred >= c
AddTaken(pred, c) == pred > c

(* The loop body on the pair <<mul, w_mul>>; pred**2 is pred*pred quarters.*)
AddBody(m, edge, pred, c) ==
    IF AddTaken(pred, c)
    THEN <<VecAdd(VecAdd(m[1], edge[1], 1), edge[2], 1),
           VecAdd(VecAdd(m[2], edge[1], pred * pred), edge[2], pred * pred)>>
    ELSE m

RECURSIVE AddLoop(_, _, _, _, _)
AddLoop(k, m, es, ps, c) ==
    IF k > Min(Len(es), Len(ps)) THEN m
    ELSE AddLoop(k + 1, AddBody(m, es[k], ps[k], c), es, ps, c)

add_multiplicity(n, es, ps, c) == AddLoop(1, <<Zeros(n), Zeros(n)>>, es, ps, c)

CallAddMultiplicity ==
    /\ pc = "start"
    /\ LET r == add_multiplicity(n_hits, edges, preds, cut)
       IN mul' = r[1] /\ w_mul' = r[2]
    /\ pc' = "add_multiplicity_done"
    /\ UNCHANGED <<n_hits, edges, preds, labels, cut, tf_mul, plotted, not_g>>

InitAdd == pc = "start" /\ GraphInitNoLabels /\ ResultsIdle /\ IdleButG
NextAdd == CallAddMultiplicity
SpecAdd == InitAdd /\ [][NextAdd]_vars

(* C4: mul[h] is the number of edge endpoints equal to h over the edges    *)
(* with preds[j] > cut (strictly); the other edges add nothing, a          *)
(* self-loop above the cut adds 2, and the sum of mul is twice the number  *)
(* of edges above the cut.                                                 *)
C4_AddMultiplicity ==
    pc = "add_multiplicity_done" =>
        /\ DOMAIN mul = HitIds(n_hits)
        /\ \A h \in HitIds(n_hits) :
              mul[h] = Cardinality({e \in EndpointsAt(h) : preds[e[1]] > cut})
        /\ FnSum(mul, HitIds(n_hits))
              = 2 * Cardinality({k \in 1 .. Len(edges) : preds[k] > cut})

(* A run with a self-loop above the cut, counted twice, and an edge at the *)
(* cut, not counted.                                                       *)
C4_Witness ==
    /\ pc = "add_multiplicity_done"
    /\ \E k \in 1 .. Len(edges) :
          /\ edges[k][1] = edges[k][2] /\ preds[k] > cut
          /\ mul[edges[k][1]] = 2
    /\ \E k \in 1 .. Len(edges) : preds[k] = cut

-----------------------------------------------------------------------------
(* Datasets, Subset and DataLoader                                         *)

(* The samples a dataset position may hold.                                *)
Samples == {"g1", "g2"}

(* What the dataset returns for a position outside 0 .. len-1: the dataset *)
(* class is not part of these files.                                       *)
OutOfRange == "out_of_range"

(* full_dataset[p]                                                         *)
GetItem(ds, p) == IF p \in 0 .. (Len(ds) - 1) THEN ds[p + 1] ELSE OutOfRange

(* torch.arange(n): 0, 1, ..., n-1                                         *)
arange(n) == [k \in 1 .. n |-> k - 1]

(* Python slicing ary[a:b] for 0 <= a <= b <= len(ary).                    *)
Slice(ary, a, b) == [k \in 1 .. (b - a) |-> ary[a + k]]

(* numpy.array_split(ary, n): divmod(len, n) gives each section's size and *)
(* the number of leading sections that get one more; the sections are the  *)
(* slices between the running sums (div_points) of the sizes.              *)
SectionSizeExtrasLast(total, n, i) ==
    IF i >= n - (total % n) THEN (total \div n) + 1 ELSE total \div n

SectionSize(total, n, i) ==
    IF i < total % n THEN (total \div n) + 1 ELSE total \div n

RECURSIVE DivPoint(_, _, _)
DivPoint(total, n, i) ==
    IF i = 0 THEN 0 ELSE DivPoint(total, n, i - 1) + SectionSize(total, n, i - 1)

array_split(ary, n) ==
    [i \in 1 .. n |->
        Slice(ary, DivPoint(Len(ary), n, i - 1), DivPoint(Len(ary), n, i))]

(* Subset(dataset, indices)[idx] == dataset[indices[idx]]                  *)
SubsetPositionDirect(ix, idx) == idx

SubsetPosition(ix, idx) == ix[idx + 1]

(* DataLoader(sub_dataset, batch_size=1, collate_fn=...): no shuffle, so a *)
(* sequential sampler; drop_last is off.                                   *)
DataLoader(ix, collate) ==
    [indices |-> ix, batch_size |-> 1, collate_fn |-> collate]

(* The collate function applied to the list of one sample.                 *)
Collate(l, sample) == <<l.collate_fn, <<sample>>>>

(* sub_indices of get_data_loader                                          *)
SubIndices(len, n, t) == array_split(arange(len), n)[t + 1]

get_data_loader ==
    /\ pc = "start"
    /\ indices' = SubIndices(Len(dataset), n_tasks, task)
    /\ loader' = DataLoader(indices', "Batch.from_data_list")
    /\ pc' = "iterating"
    /\ UNCHANGED <<dataset, n_tasks, task, n_test, it, fetched, yielded, not_l>>

(* One step of `for batch in data_loader`: the next sampler index, the     *)
(* Subset lookup and the collation of the one-sample list.                 *)
LoaderNext ==
    /\ pc = "iterating"
    /\ it < Len(loader.indices)
    /\ LET p == SubsetPosition(loader.indices, it)
       IN /\ fetched' = Append(fetched, p)
          /\ yielded' = Append(yielded, Collate(loader, GetItem(dataset, p)))
    /\ it' = it + 1
    /\ UNCHANGED <<pc, dataset, n_tasks, task, n_test, indices, loader, not_l>>

(* The sampler is exhausted: the iteration ends.                           *)
LoaderStop ==
    /\ pc = "iterating"
    /\ it = Len(loader.indices)
    /\ pc' = "done"
    /\ UNCHANGED <<lvars, not_l>>

InitLoader ==
    /\ pc = "start"
    /\ \E len \in 0 .. MaxLen : dataset \in SeqN(Samples, len)
    /\ n_tasks \in 1 .. MaxTasks
    /\ task \in 0 .. (n_tasks - 1)
    /\ n_test = 0 /\ indices = <<>> /\ loader = <<>> /\ it = 0
    /\ fetched = <<>> /\ yielded = <<>>
    /\ IdleButL

NextLoader == get_data_loader \/ LoaderNext \/ LoaderStop
SpecLoader == InitLoader /\ [][NextLoader]_vars

SeqRange(s) == {s[k] : k \in 1 .. Len(s)}
Built == pc \in {"iterating", "done"}

C10_LoaderFollowsIndices ==
    /\ Built => /\ Len(yielded) = it /\ it <= Len(indices)
                /\ \A k \in 1 .. Len(yielded) :
                      /\ yielded[k][2] = <<dataset[indices[k] + 1]>>
                      /\ fetched[k] = indices[k]
    /\ pc = "done" => Len(yielded) = Len(indices)

C10_Witness ==
    /\ pc = "done" /\ task > 0 /\ Len(yielded) = 2
    /\ yielded[1][2] # yielded[2][2]
    /\ dataset[1] # yielded[1][2][1]

-----------------------------------------------------------------------------
(* get_test_data_loader, get_dense_test_data_loader                        *)

TestIndicesAscending(len, n) == [k \in 1 .. n |-> len - n + arange(n)[k]]

(* len(full_dataset) - 1 - torch.arange(n_test)                            *)
TestIndices(len, n) == [k \in 1 .. n |-> len - 1 - arange(n)[k]]

get_test_data_loader ==
    /\ pc = "start"
    /\ indices' = TestIndices(Len(dataset), n_test)
    /\ loader' = DataLoader(indices', "Batch.from_data_list")
    /\ pc' = "iterating"
    /\ UNCHANGED <<dataset, n_tasks, task, n_test, it, fetched, yielded, not_l>>

get_dense_test_data_loader ==
    /\ pc = "start"
    /\ indices' = TestIndices(Len(dataset), n_test)
    /\ loader' = DataLoader(indices', "datasets.hitgraphs.collate_fn")
    /\ pc' = "iterating"
    /\ UNCHANGED <<dataset, n_tasks, task, n_test, it, fetched, yielded, not_l>>

InitTest ==
    /\ pc = "start"
    /\ \E len \in 0 .. MaxLen : dataset \in SeqN(Samples, len)
    /\ n_test \in 0 .. MaxTest
    /\ n_tasks = 1 /\ task = 0 /\ indices = <<>> /\ loader = <<>> /\ it = 0
    /\ fetched = <<>> /\ yielded = <<>>
    /\ IdleButL

NextTest ==
    \/ get_test_data_loader
    \/ get_dense_test_data_loader
    \/ LoaderNext
    \/ LoaderStop

SpecTest == InitTest /\ [][NextTest]_vars

(* C3: both test loaders select exactly the indices N-1-k, k = 0 ..        *)
(* n_test-1, in that order, one sample per batch; the indices are distinct *)
(* positions inside 0 .. N-1 exactly when n_test <= N, and for n_test > N  *)
(* those for k >= N are negative.                                          *)
C3_TestSetFromTheBack ==
    Built =>
        LET N == Len(dataset) IN
        /\ Len(indices) = n_test
        /\ \A k \in 0 .. (n_test - 1) : indices[k + 1] = N - 1 - k
        /\ loader.indices = indices /\ loader.batch_size = 1
        /\ Len(fetched) = it /\ Len(yielded) = it
        /\ \A k \in 1 .. it : fetched[k] = indices[k] /\ Len(yielded[k][2]) = 1
        /\ pc = "done" => fetched = indices
        /\ ( /\ \A k \in 1 .. n_test : indices[k] \in 0 .. (N - 1)
             /\ \A k, m \in 1 .. n_test : k # m => indices[k] # indices[m] )
           <=> n_test <= N
        /\ n_test > N => \A k \in N .. (n_test - 1) : indices[k + 1] < 0

(* The dense loader asked for more samples than the dataset holds.         *)
C3_Witness ==
    /\ pc = "done"
    /\ loader.collate_fn = "datasets.hitgraphs.collate_fn"
    /\ Len(dataset) = 2 /\ n_test = 3
    /\ fetched = <<1, 0, -1>>

-----------------------------------------------------------------------------
(* apply_model, apply_dense_model                                          *)

(* A tensor is its shape and its elements in row-major order.  The inputs *)
(* of a batch are opaque; the network maps each to per-edge outputs.       *)
Tensor(sh, d) == [shape |-> sh, data |-> d]
Inputs == {"xa", "xb"}
EdgeOutputs == {<<-1>>, <<1, -1>>}
EdgeTargets == {<<1>>, <<0, 1>>}

(* torch.sigmoid, elementwise; the value is kept symbolic.                 *)
sigmoid(t) == Tensor(t.shape, [k \in DOMAIN t.data |-> [sigmoid_of |-> t.data[k]]])

(* tensor.squeeze(0): drops dimension 0 when its size is 1.                *)
squeeze0(t) ==
    IF t.shape # <<>> /\ t.shape[1] = 1 THEN Tensor(Tail(t.shape), t.data) ELSE t

(* list.append                                                             *)
ListPrepend(l, x) == <<x>> \o l
ListAppend(l, x) == Append(l, x)

(* One pass of apply_model's loop body for the next batch.                 *)
ApplyModelStep ==
    /\ pc = "apply_model"
    /\ consumed < Len(data_loader)
    /\ LET batch == data_loader[consumed + 1]
       IN /\ out_preds' = ListAppend(out_preds, squeeze0(sigmoid(model[batch.x])))
          /\ out_targets' = ListAppend(out_targets, squeeze0(batch.y))
    /\ consumed' = consumed + 1
    /\ UNCHANGED <<pc, model, data_loader, threshold, metrics, not_m>>

ApplyModelReturn ==
    /\ pc = "apply_model"
    /\ consumed = Len(data_loader)
    /\ pc' = "apply_model_done"
    /\ UNCHANGED <<mvars, not_m>>

(* The dense loader yields pairs (inputs, target).                         *)
ApplyDenseModelStep ==
    /\ pc = "apply_dense_model"
    /\ consumed < Len(data_loader)
    /\ LET inputs == data_loader[consumed + 1][1]
           target == data_loader[consumed + 1][2]
       IN /\ out_preds' = ListAppend(out_preds, squeeze0(model[inputs]))
          /\ out_targets' = ListAppend(out_targets, squeeze0(target))
    /\ consumed' = consumed + 1
    /\ UNCHANGED <<pc, model, data_loader, threshold, metrics, not_m>>

ApplyDenseModelReturn ==
    /\ pc = "apply_dense_model"
    /\ consumed = Len(data_loader)
    /\ pc' = "apply_dense_model_done"
    /\ UNCHANGED <<mvars, not_m>>

(* The sparse model and batch.y hold one value per edge, shape (n,); the   *)
(* dense model and the dense loader carry a leading batch dimension of     *)
(* size 1, shape (1, n).                                                   *)
SparseTensors(D) == {Tensor(<<Len(d)>>, d) : d \in D}
DenseTensors(D) == {Tensor(<<1, Len(d)>>, d) : d \in D}

InitApply ==
    /\ \/ /\ pc = "apply_model"
          /\ model \in [Inputs -> SparseTensors(EdgeOutputs)]
          /\ \E n \in 0 .. MaxBatches :
                data_loader \in SeqN([x : Inputs, y : SparseTensors(EdgeTargets)], n)
       \/ /\ pc = "apply_dense_model"
          /\ model \in [Inputs -> DenseTensors(EdgeOutputs)]
          /\ \E n \in 0 .. MaxBatches :
                data_loader \in SeqN(Inputs \X DenseTensors(EdgeTargets), n)
    /\ consumed = 0 /\ out_preds = <<>> /\ out_targets = <<>>
    /\ threshold = Threshold /\ metrics = <<>>
    /\ IdleButM

NextApply ==
    \/ ApplyModelStep
    \/ ApplyModelReturn
    \/ ApplyDenseModelStep
    \/ ApplyDenseModelReturn

SpecApply == InitApply /\ [][NextApply]_vars

Sparse == pc \in {"apply_model", "apply_model_done"}

(* The network's output and the target of the k-th batch the loader gives. *)
OutputOfBatch(k) ==
    IF Sparse THEN model[data_loader[k].x] ELSE model[data_loader[k][1]]

TargetOfBatch(k) ==
    IF Sparse THEN data_loader[k].y ELSE data_loader[k][2]

(* t without a leading dimension of size 1.                                *)
SameButBatchDim(r, t) ==
    /\ r.data = t.data
    /\ r.shape \in {t.shape, Tail(t.shape)}
    /\ r.shape # t.shape <=> (t.shape # <<>> /\ t.shape[1] = 1)

(* C6: apply_model and apply_dense_model return two lists of equal length, *)
(* the number of batches the loader yields, and position k of each comes   *)
(* from the k-th batch yielded; an empty loader gives two empty lists.     *)
C6_ApplyKeepsPairing ==
    /\ Len(out_preds) = consumed /\ Len(out_targets) = consumed
    /\ \A k \in 1 .. consumed :
          /\ SameButBatchDim(out_targets[k], TargetOfBatch(k))
          /\ out_preds[k].shape \in {OutputOfBatch(k).shape, Tail(OutputOfBatch(k).shape)}
          /\ \A e \in DOMAIN OutputOfBatch(k).data :
                out_preds[k].data[e] =
                    IF Sparse THEN [sigmoid_of |-> OutputOfBatch(k).data[e]]
                    ELSE OutputOfBatch(k).data[e]
    /\ pc \in {"apply_model_done", "apply_dense_model_done"} =>
          /\ Len(out_preds) = Len(data_loader)
          /\ Len(out_targets) = Len(data_loader)

(* A finished sparse run over three batches, the first two of which differ *)
(* in what they give.                                                      *)
C6_Witness ==
    /\ pc = "apply_model_done"
    /\ Len(out_preds) = 3
    /\ out_preds[1] # out_preds[2] /\ out_targets[1] # out_targets[2]

-----------------------------------------------------------------------------
(* compute_metrics                                                         *)

(* np.concatenate of a list of 1-d arrays.                                 *)
RECURSIVE concatenate(_)
concatenate(l) == IF l = <<>> THEN <<>> ELSE Head(l) \o concatenate(Tail(l))

(* The elementwise comparison of line 107.                                 *)
ExceedsOrEquals(v, t) == v >= t
Exceeds(v, t) == v > t

Count(S) == Cardinality(S)

(* sklearn.metrics: a ratio is the pair <<numerator, denominator>>.        *)
(* accuracy_score is the mean of (y_true == y_pred); the mean of no entry  *)
(* is 0/0.  precision_score and recall_score return 0 when their           *)
(* denominator is zero.                                                    *)
accuracy_score(y_true, y_pred) ==
    <<Count({k \in DOMAIN y_true : y_true[k] = y_pred[k]}), Len(y_true)>>

precision_score(y_true, y_pred) ==
    LET tp == Count({k \in DOMAIN y_true : y_pred[k] /\ y_true[k]})
        fp == Count({k \in DOMAIN y_true : y_pred[k] /\ ~y_true[k]})
    IN IF tp + fp = 0 THEN <<0, 1>> ELSE <<tp, tp + fp>>

recall_score(y_true, y_pred) ==
    LET tp == Count({k \in DOMAIN y_true : y_pred[k] /\ y_true[k]})
        fn == Count({k \in DOMAIN y_true : ~y_pred[k] /\ y_true[k]})
    IN IF tp + fn = 0 THEN <<0, 1>> ELSE <<tp, tp + fn>>

(* The decision-boundary part of compute_metrics; y_pred and y_true are    *)
(* its locals.  The precision-recall and ROC curve fields are library      *)
(* results of (y_true, preds) and are not modelled.                        *)
compute_metrics ==
    /\ pc = "compute_metrics"
    /\ LET preds_c == concatenate(out_preds)
           targets_c == concatenate(out_targets)
           y_pred == [k \in DOMAIN preds_c |-> Exceeds(preds_c[k], threshold)]
           y_true == [k \in DOMAIN targets_c |-> Exceeds(targets_c[k], threshold)]
       IN metrics' = [y_pred |-> y_pred, y_true |-> y_true,
                      accuracy |-> accuracy_score(y_true, y_pred),
                      precision |-> precision_score(y_true, y_pred),
                      recall |-> recall_score(y_true, y_pred)]
    /\ pc' = "compute_metrics_done"
    /\ UNCHANGED <<model, data_loader, consumed, out_preds, out_targets,
                   threshold, not_m>>

(* flat cut into consecutive arrays of the lengths lens.                   *)
RECURSIVE Chunks(_, _)
Chunks(flat, lens) ==
    IF lens = <<>> THEN <<>>
    ELSE <<SubSeq(flat, 1, Head(lens))>>
         \o Chunks(SubSeq(flat, Head(lens) + 1, Len(flat)), Tail(lens))

(* The lists hold one array per batch, at least one; the prediction and    *)
(* the target array of a batch have the same length.                       *)
InitMetrics ==
    /\ pc = "compute_metrics"
    /\ \E n \in 1 .. MaxArrays :
         \E lens \in {l \in SeqN(0 .. MaxEntries, n) : SeqSum(l) <= MaxEntries} :
            /\ \E flat \in SeqN(Scores, SeqSum(lens)) : out_preds = Chunks(flat, lens)
            /\ \E flat \in SeqN(Scores, SeqSum(lens)) : out_targets = Chunks(flat, lens)
    /\ threshold = Threshold
    /\ model = <<>> /\ data_loader = <<>> /\ consumed = 0 /\ metrics = <<>>
    /\ IdleButM

NextMetrics == compute_metrics
SpecMetrics == InitMetrics /\ [][NextMetrics]_vars

(* The entries <<a, k>>: element k of array a, and the place of each in    *)
(* the concatenation.                                                      *)
Entries == {e \in (1 .. Len(out_preds)) \X (1 .. MaxEntries + 1) :
                e[2] <= Len(out_preds[e[1]])}
Place(e) == Count({f \in Entries : f[1] < e[1]}) + e[2]
PredPos(e) == out_preds[e[1]][e[2]] > threshold
TruePos(e) == out_targets[e[1]][e[2]] > threshold
SameRatio(r, num, den) == r[1] * den = num * r[2]

(* C5: entry i of the concatenation is predicted-positive iff its          *)
(* prediction is > threshold and actual-positive iff its target is >       *)
(* threshold; accuracy is the number of entries where the two agree over   *)
(* the number of entries, and with non-zero denominators precision is      *)
(* TP/(TP+FP) and recall TP/(TP+FN).                                       *)
C5_DecisionMetrics ==
    pc = "compute_metrics_done" =>
        LET tp == Count({e \in Entries : PredPos(e) /\ TruePos(e)})
            fp == Count({e \in Entries : PredPos(e) /\ ~TruePos(e)})
            fn == Count({e \in Entries : ~PredPos(e) /\ TruePos(e)})
            agree == Count({e \in Entries : PredPos(e) <=> TruePos(e)})
        IN /\ Len(metrics.y_pred) = Count(Entries)
           /\ Len(metrics.y_true) = Count(Entries)
           /\ \A e \in Entries :
                 /\ metrics.y_pred[Place(e)] = PredPos(e)
                 /\ metrics.y_true[Place(e)] = TruePos(e)
           /\ metrics.accuracy = <<agree, Count(Entries)>>
           /\ tp + fp # 0 => SameRatio(metrics.precision, tp, tp + fp)
           /\ tp + fn # 0 => SameRatio(metrics.recall, tp, tp + fn)

(* Two arrays, three entries, one prediction exactly at the threshold, and *)
(* a true positive, a false positive and a false negative among them.      *)
C5_Witness ==
    /\ pc = "compute_metrics_done"
    /\ Len(out_preds) = 2 /\ Len(out_preds[1]) = 1 /\ Len(out_preds[2]) = 2
    /\ \E e \in Entries : out_preds[e[1]][e[2]] = threshold
    /\ metrics.precision[2] > 1 /\ metrics.recall[2] > 1
    /\ metrics.accuracy[1] < metrics.accuracy[2]

-----------------------------------------------------------------------------
(* draw_sample_xy                                                          *)

(* One ax0.plot call: the hits it joins, its line style and its colour.    *)
Plot(a, b, style, colour) == [from |-> a, to |-> b, style |-> style, c |-> colour]

(* The three tests of the loop body.                                       *)
XYFalseNegativeWeak(pred, label, c) == pred <= c /\ label > c
XYFalseNegative(pred, label, c) == pred < c /\ label > c
XYFalsePositive(pred, label, c) == pred > c /\ label < c
XYTruePositive(pred, label, c) == pred > c /\ label > c

(* The plot calls of one loop pass, in source order.                       *)
XYBody(edge, pred, label, c) ==
       (IF XYFalseNegative(pred, label, c)
        THEN <<Plot(edge[1], edge[2], "--", "b")>> ELSE <<>>)
    \o (IF XYFalsePositive(pred, label, c)
        THEN <<Plot(edge[1], edge[2], "-", "r")>> ELSE <<>>)
    \o (IF XYTruePositive(pred, label, c)
        THEN <<Plot(edge[1], edge[2], "-", "k")>> ELSE <<>>)

(* for j in range(labels.shape[0]): the calls of each pass, tagged with j. *)
RECURSIVE XYLoop(_, _, _, _, _)
XYLoop(k, es, ps, ls, c) ==
    IF k > Len(ls) THEN <<>>
    ELSE [i \in 1 .. Len(XYBody(es[k], ps[k], ls[k], c)) |->
             <<k - 1, XYBody(es[k], ps[k], ls[k], c)[i]>>]
         \o XYLoop(k + 1, es, ps, ls, c)

draw_sample_xy ==
    /\ pc = "start"
    /\ plotted' = XYLoop(1, edges, preds, labels, cut)
    /\ pc' = "draw_sample_xy_done"
    /\ UNCHANGED <<n_hits, edges, preds, labels, cut, tf_mul, mul, w_mul, not_g>>

InitXY == pc = "start" /\ GraphInit /\ ResultsIdle /\ IdleButG
NextXY == draw_sample_xy
SpecXY == InitXY /\ [][NextXY]_vars

(* The plot calls made for edge j (0-based), as positions of plotted.      *)
PlotsOfEdge(j) == {i \in 1 .. Len(plotted) : plotted[i][1] = j}
Drawn(j, style, colour) ==
    \E i \in PlotsOfEdge(j) :
        plotted[i][2].style = style /\ plotted[i][2].c = colour

(* C7: every edge is drawn at most once; dashed blue iff false negative,   *)
(* solid red iff false positive, solid black iff true positive; an edge is *)
(* not drawn iff it is a true negative or its prediction or its label      *)
(* equals the cut.                                                         *)
C7_EdgeStyles ==
    pc = "draw_sample_xy_done" =>
        \A j \in 0 .. (Len(labels) - 1) :
            LET p == preds[j + 1]
                l == labels[j + 1]
            IN /\ Cardinality(PlotsOfEdge(j)) <= 1
               /\ Drawn(j, "--", "b") <=> (p < cut /\ l > cut)
               /\ Drawn(j, "-", "r") <=> (p > cut /\ l < cut)
               /\ Drawn(j, "-", "k") <=> (p > cut /\ l > cut)
               /\ \A i \in PlotsOfEdge(j) :
                     /\ <<plotted[i][2].style, plotted[i][2].c>>
                           \in {<<"--", "b">>, <<"-", "r">>, <<"-", "k">>}
                     /\ plotted[i][2].from = edges[j + 1][1]
                     /\ plotted[i][2].to = edges[j + 1][2]
               /\ PlotsOfEdge(j) = {} <=>
                     ((p < cut /\ l < cut) \/ p = cut \/ l = cut)

(* Two edges: a false negative, drawn dashed blue, and an edge whose       *)
(* prediction is at the cut, not drawn.                                    *)
C7_Witness ==
    /\ pc = "draw_sample_xy_done"
    /\ Len(labels) = 2
    /\ preds[1] < cut /\ labels[1] > cut /\ Drawn(0, "--", "b")
    /\ preds[2] = cut /\ labels[2] > cut /\ PlotsOfEdge(1) = {}

-----------------------------------------------------------------------------
(* draw_triplets_tf_mul_xy                                                 *)

(* The six tests of the loop body on a hit's row (tp, fp, tn, fn).         *)
TfGold(row) == row[0] > 0 /\ row[1] = 0 /\ row[3] = 0
TfGoldMissed(row) == row[0] > 0 /\ row[1] = 0 /\ row[3] > 0
TfSilverAnyPositive(row) == row[0] > 0
TfSilver(row) == row[0] > 0 /\ row[1] > 0
TfMissed(row) == row[0] = 0 /\ row[1] = 0 /\ row[3] > 0
TfIncorrect(row) == row[0] = 0 /\ row[1] > 0
TfWeird(row) == row[0] = 0 /\ row[1] > 0 /\ row[3] > 0

(* The plot calls of one loop pass for hit j, in source order; each joins  *)
(* the hit's inner point (xi, yi) to its outer point (xo, yo).             *)
TfDrawBody(j, row) ==
       (IF TfGold(row) THEN <<Plot(j, j, "-", "#ffc70f")>> ELSE <<>>)
    \o (IF TfGoldMissed(row) THEN <<Plot(j, j, "--", "#982e06")>> ELSE <<>>)
    \o (IF TfSilver(row) THEN <<Plot(j, j, "-", "#adadad")>> ELSE <<>>)
    \o (IF TfMissed(row) THEN <<Plot(j, j, "--", "b")>> ELSE <<>>)
    \o (IF TfIncorrect(row) THEN <<Plot(j, j, "-", "r")>> ELSE <<>>)
    \o (IF TfWeird(row) THEN <<Plot(j, j, ":", "g")>> ELSE <<>>)

(* for j in range(len(xi))                                                 *)
RECURSIVE TfDrawLoop(_, _, _)
TfDrawLoop(j, n, tf) ==
    IF j >= n THEN <<>> ELSE TfDrawBody(j, tf[j]) \o TfDrawLoop(j + 1, n, tf)

draw_triplets_tf_mul_xy ==
    /\ pc = "start"
    /\ tf_mul' = tf_multiplicity(n_hits, edges, preds, labels, cut)
    /\ plotted' = TfDrawLoop(0, n_hits, tf_mul')
    /\ pc' = "draw_triplets_tf_mul_xy_done"
    /\ UNCHANGED <<n_hits, edges, preds, labels, cut, mul, w_mul, not_g>>

InitTfDraw == pc = "start" /\ GraphInit /\ ResultsIdle /\ IdleButG
NextTfDraw == draw_triplets_tf_mul_xy
SpecTfDraw == InitTfDraw /\ [][NextTfDraw]_vars

(* The styles <<line style, colour>> drawn for hit j, in order.            *)
StylesOfHit(j) ==
    LET at == SelectSeq(plotted, LAMBDA q : q.from = j)
    IN [i \in 1 .. Len(at) |-> <<at[i].style, at[i].c>>]

Tagged == {<<"-", "#ffc70f">>, <<"--", "#982e06">>, <<"-", "#adadad">>,
           <<"--", "b">>, <<"-", "r">>}

(* C8: the five tagged categories are pairwise disjoint and cover every    *)
(* hit with tp+fp+fn > 0; a hit with tp=fp=fn=0 is drawn with no segment;  *)
(* a hit gets more than one style only when tp=0, fp>0, fn>0, and then the *)
(* red line and the green dotted line.                                     *)
C8_TfCategories ==
    pc = "draw_triplets_tf_mul_xy_done" =>
        \A j \in HitIds(n_hits) :
            LET tp == tf_mul[j][0]
                fp == tf_mul[j][1]
                fn == tf_mul[j][3]
                st == StylesOfHit(j)
                has(x) == x \in SeqRange(st)
                tags == SelectSeq(st, LAMBDA x : x \in Tagged)
            IN /\ has(<<"-", "#ffc70f">>) <=> (tp > 0 /\ fp = 0 /\ fn = 0)
               /\ has(<<"--", "#982e06">>) <=> (tp > 0 /\ fp = 0 /\ fn > 0)
               /\ has(<<"-", "#adadad">>) <=> (tp > 0 /\ fp > 0)
               /\ has(<<"--", "b">>) <=> (tp = 0 /\ fp = 0 /\ fn > 0)
               /\ has(<<"-", "r">>) <=> (tp = 0 /\ fp > 0)
               /\ Len(tags) = IF tp + fp + fn > 0 THEN 1 ELSE 0
               /\ tp + fp + fn = 0 => st = <<>>
               /\ Len(st) > 1 <=> (tp = 0 /\ fp > 0 /\ fn > 0)
               /\ Len(st) > 1 => st = << <<"-", "r">>, <<":", "g">> >>

(* A hit with a false-positive and a false-negative edge and no true       *)
(* positive: drawn red and green dotted.                                   *)
C8_Witness ==
    /\ pc = "draw_triplets_tf_mul_xy_done"
    /\ \E j \in HitIds(n_hits) :
          /\ tf_mul[j][0] = 0 /\ tf_mul[j][1] > 0 /\ tf_mul[j][3] > 0
          /\ Len(StylesOfHit(j)) = 2

-----------------------------------------------------------------------------
(* draw_sample                                                             *)

(* M.T of a matrix with R rows and C columns, M[r][c].                     *)
Transpose(M, R, C) == [c \in 0 .. (C - 1) |-> [r \in 0 .. (R - 1) |-> M[r][c]]]

(* np.where(M) of an R x C matrix: the <<row, column>> of every non-zero   *)
(* entry, in row-major order.                                              *)
RECURSIVE WhereFrom(_, _, _, _, _)
WhereFrom(M, r, c, R, C) ==
    IF r >= R THEN <<>>
    ELSE IF c >= C THEN WhereFrom(M, r + 1, 0, R, C)
    ELSE (IF M[r][c] # 0 THEN << <<r, c>> >> ELSE <<>>)
         \o WhereFrom(M, r, c + 1, R, C)

where(M, R, C) == WhereFrom(M, 0, 0, R, C)

Column(pairs, i) == [k \in 1 .. Len(pairs) |-> pairs[k][i]]

(* np.where(M.T)[1] for an incidence matrix M with N rows and E columns.   *)
SegmentNodesUntransposed(M, N, E) == Column(where(M, N, E), 1)
SegmentNodes(M, N, E) == Column(where(Transpose(M, N, E), E, N), 2)

(* X[idx]: the rows of X picked by an index array.                         *)
Take(x, idx) == [k \in 1 .. Len(idx) |-> x[idx[k] + 1]]

(* The two plot calls of loop pass j (0-based), on ax0 and ax1.            *)
SegPlots(j, fo, fi, yj) ==
    << [ax |-> "ax0", seg |-> j, a |-> fo[j + 1], b |-> fi[j + 1], alpha |-> yj],
       [ax |-> "ax1", seg |-> j, a |-> fo[j + 1], b |-> fi[j + 1], alpha |-> yj] >>

(* for j in range(y.shape[0]): the passes before the first j that has no   *)
(* row in feats_o or feats_i.                                              *)
RECURSIVE SegLoop(_, _, _, _)
SegLoop(j, fo, fi, ys) ==
    IF j >= Len(ys) \/ j >= Len(fo) \/ j >= Len(fi) THEN <<>>
    ELSE SegPlots(j, fo, fi, ys[j + 1]) \o SegLoop(j + 1, fo, fi, ys)

(* Indexing feats_o[j] or feats_i[j] past the end raises IndexError.       *)
draw_sample ==
    /\ pc = "start"
    /\ LET N == Len(X)
           E == Len(y)
           feats_o == Take(X, SegmentNodes(Ri, N, E))
           feats_i == Take(X, SegmentNodes(Ro, N, E))
       IN /\ plotted' = SegLoop(0, feats_o, feats_i, y)
          /\ pc' = IF Len(feats_o) < E \/ Len(feats_i) < E
                   THEN "draw_sample_raised" ELSE "draw_sample_done"
    /\ UNCHANGED <<n_hits, edges, preds, labels, cut, tf_mul, mul, w_mul,
                   dvars, lvars, mvars, cvars>>

(* X has one row per node, told apart by the node; Ri and Ro are 0/1       *)
(* matrices with one row per node and one column per entry of y.           *)
Matrices(N, E) == [0 .. (N - 1) -> [0 .. (E - 1) -> {0, 1}]]

InitDraw ==
    /\ pc = "start"
    /\ \E N \in 0 .. MaxNodes, E \in 0 .. MaxSegs :
          /\ X = [k \in 1 .. N |-> <<"X", k - 1>>]
          /\ Ri \in Matrices(N, E)
          /\ Ro \in Matrices(N, E)
          /\ y = [k \in 1 .. E |-> 2]
    /\ GraphIdle /\ ResultsIdle /\ LoaderIdle /\ ApplyIdle /\ ConfigIdle

NextDraw == draw_sample
SpecDraw == InitDraw /\ [][NextDraw]_vars

Nodes == 0 .. (Len(X) - 1)
Segs == 0 .. (Len(y) - 1)
OnePerColumn(M) ==
    \A j \in Segs : Cardinality({n \in Nodes : M[n][j] # 0}) = 1

(* C9: when every column of Ri and of Ro has exactly one non-zero entry,   *)
(* the segment drawn for edge j joins the features of the node n with      *)
(* Ri[n, j] != 0 to those of the node m with Ro[m, j] != 0.                *)
C9_SegmentJoinsItsNodes ==
    (pc \in {"draw_sample_done", "draw_sample_raised"}
        /\ OnePerColumn(Ri) /\ OnePerColumn(Ro)) =>
        /\ pc = "draw_sample_done"
        /\ \A j \in Segs :
              LET n == CHOOSE k \in Nodes : Ri[k][j] # 0
                  m == CHOOSE k \in Nodes : Ro[k][j] # 0
              IN \A ax \in {"ax0", "ax1"} :
                    /\ Cardinality({i \in 1 .. Len(plotted) :
                          plotted[i].ax = ax /\ plotted[i].seg = j}) = 1
                    /\ \A i \in 1 .. Len(plotted) :
                          (plotted[i].ax = ax /\ plotted[i].seg = j) =>
                              /\ plotted[i].a = <<"X", n>>
                              /\ plotted[i].b = <<"X", m>>

(* Two edges whose nodes are not in edge order: edge 0 leaves node 1 and   *)
(* edge 1 leaves node 0.                                                   *)
C9_Witness ==
    /\ pc = "draw_sample_done"
    /\ OnePerColumn(Ri) /\ OnePerColumn(Ro)
    /\ Len(y) = 2 /\ Len(X) = 2
    /\ Ri[1][0] = 1 /\ Ri[0][1] = 1
    /\ Ro[0][0] = 1 /\ Ro[1][1] = 1
    /\ Len(plotted) = 4

-----------------------------------------------------------------------------
(* load_model                                                              *)

(* A dict is a function on its keys.                                       *)
ModelKeys == {"name", "hidden_dim", "loss_func"}
ModelValues == {"v1", "v2"}
OutputDirs == {"$SCRATCH/out", "out"}
Epochs == {0, 12}
Dicts(K, V) == UNION {[D -> V] : D \in SUBSET K}

(* d after d.pop(key, None): d without key, d itself when key is absent.   *)
PopNothing(d, key) == d
Pop(d, key) == [k \in (DOMAIN d) \ {key} |-> d[k]]

(* os.path.expandvars(config['output_dir']); the expansion is the          *)
(* environment's.                                                          *)
get_output_dir(cfg) == <<"expandvars", cfg.output_dir>>

(* os.path.join(output_dir, 'checkpoints', 'model_checkpoint_%03i.pth.tar')*)
CheckpointFile(cfg, reload_epoch) ==
    <<get_output_dir(cfg), "checkpoints", "model_checkpoint", reload_epoch>>

(* One call.  model_config is config['model'] itself, so the pop acts on   *)
(* the caller's dict; get_model receives the entries as keyword arguments. *)
(* Building the model or loading the checkpoint may raise; the pop has     *)
(* happened by then.                                                       *)
load_model ==
    /\ pc = "idle"
    /\ Len(load_calls) < MaxCalls
    /\ \E reload_epoch \in Epochs, outcome \in {"returned", "raised"} :
          LET model_config == Pop(config.model, "loss_func")
              after == [config EXCEPT !.model = model_config]
          IN /\ config' = after
             /\ load_calls' = Append(load_calls,
                    [before |-> config,
                     kwargs |-> model_config,
                     checkpoint_file |-> CheckpointFile(after, reload_epoch),
                     outcome |-> outcome])
    /\ UNCHANGED <<pc, not_c>>

InitConfig ==
    /\ pc = "idle"
    /\ config \in [output_dir : OutputDirs, model : Dicts(ModelKeys, ModelValues)]
    /\ load_calls = <<>>
    /\ IdleButC

NextConfig == load_model
SpecConfig == InitConfig /\ [][NextConfig]_vars

(* The config as call k left it: as the next call found it, or as it is.   *)
ConfigAfter(k) ==
    IF k < Len(load_calls) THEN load_calls[k + 1].before ELSE config

(* C12: load_model changes the config only by removing 'loss_func' from    *)
(* config['model'] if present; every call of a sequence passes get_model   *)
(* the same keyword arguments, the model entries without 'loss_func', and  *)
(* every call after the first leaves config unchanged.                     *)
C12_LoadModelFrame ==
    \A k \in 1 .. Len(load_calls) :
        LET before == load_calls[k].before
            after == ConfigAfter(k)
            first == load_calls[1].before
        IN /\ after.output_dir = before.output_dir
           /\ DOMAIN after = DOMAIN before
           /\ DOMAIN after.model = (DOMAIN before.model) \ {"loss_func"}
           /\ \A key \in DOMAIN after.model : after.model[key] = before.model[key]
           /\ DOMAIN load_calls[k].kwargs = (DOMAIN first.model) \ {"loss_func"}
           /\ \A key \in DOMAIN load_calls[k].kwargs :
                 load_calls[k].kwargs[key] = first.model[key]
           /\ load_calls[k].kwargs = load_calls[1].kwargs
           /\ k > 1 => after = before

(* Two calls on a config whose model entries hold 'loss_func' and another  *)
(* key: the first removed it, the second found it gone.                    *)
C12_Witness ==
    /\ Len(load_calls) = 2
    /\ DOMAIN load_calls[1].before.model = {"name", "loss_func"}
    /\ DOMAIN load_calls[2].before.model = {"name"}
    /\ DOMAIN config.model = {"name"}

=============================================================================
